---- MODULE Spec2Model ----
(***************************************************************************)
(* Content versioning and review workflow of the book publication system.  *)
(*                                                                         *)
(*   src/db.py    ContentDatabase: four partitions of versioned records    *)
(*   src/main.py  BookPublicationWorkflow: run_workflow and the human      *)
(*                review loop (_human_review_loop)                         *)
(*   src/ai_agents.py  AIWriter / AIReviewer / AIEditor, as called by the  *)
(*                workflow                                                 *)
(*                                                                         *)
(* A text is a sequence of characters.  Optional[str] values are records   *)
(* [isNone, text].  Ids (uuid4) are fresh naturals; 0 stands for None and  *)
(* Unbound for a local variable that was never assigned.                   *)
(***************************************************************************)
EXTENDS Integers, Sequences, FiniteSets, TLC

\* ------------------------------------------------------------------ bounds
\* Number of decisions the human gives at the prompts of one review loop.
MaxDecisions == 7

\* Number of direct ContentDatabase / web endpoint calls in one behaviour.
MaxApiCalls == 3
\* Largest n_results asked of search_content.
MaxResults == 2
\* Number of web requests served at the same time.
MaxCallers == 2

\* ------------------------------------------------------- program constants
\* main.py:180  max_iterations = 5
max_iterations == 5
\* main.py:179  iteration = 1
FirstIteration == 1
\* db.py:67  version: int = 1
DefaultVersion == 1

\* ------------------------------------------------------------------- texts
SP == " "
EmptyText == <<>>

\* Texts the scraper can extract from a page (inner_text may be empty).
ScrapeTexts == {EmptyText, <<"s">>}
\* Texts the generative model can answer with (response.text).
ProviderTexts == {<<"w">>}
\* Texts the human can type at the edit prompt.
EditTexts == {EmptyText, <<SP>>, <<"e">>, <<SP, "e">>}

\* str.strip(): the text without its leading and trailing whitespace.
RECURSIVE LStrip(_)
LStrip(t) == IF t # <<>> /\ Head(t) = SP THEN LStrip(Tail(t)) ELSE t

RECURSIVE RStrip(_)
RStrip(t) ==
    IF t # <<>> /\ t[Len(t)] = SP THEN RStrip(SubSeq(t, 1, Len(t) - 1)) ELSE t

Strip(t) == RStrip(LStrip(t))

\* Python truth value of a str: the empty string is false.
Truthy(t) == t # EmptyText

\* Optional[str]
NoneText == [isNone |-> TRUE, text |-> EmptyText]
SomeStripped(t) == [isNone |-> FALSE, text |-> Strip(t)]
Some(t) == [isNone |-> FALSE, text |-> t]
\* Python truth value of an Optional[str]: None and "" are both false.
TruthyOpt(v) == ~v.isNone /\ Truthy(v.text)

\* Ids
NoId == 0
Unbound == -1
\* Python truth value of an Optional[str] id (uuid strings are non-empty).
TruthyId(i) == i # NoId

Style == "modern"
Tone == "engaging"

\* --------------------------------------------------------------- variables
VARIABLES
    db,                \* ContentDatabase: collection name -> records, in insertion order
    next_id,           \* source of fresh uuid4 values
    ai_available,      \* BookPublicationWorkflow.ai_available
    pc,                \* position of the running run_workflow
    text_content,      \* content_data['text_content']
    original_id,       \* run_workflow local
    ai_content,        \* run_workflow local
    ai_id,             \* run_workflow local
    current_content,   \* _human_review_loop local
    iteration,         \* _human_review_loop local
    action,            \* _human_review_loop local: the last answer of Prompt.ask
    edited_content,    \* _human_review_loop local: the last text typed at the edit prompt
    loop_exit,         \* which return statement ended _human_review_loop
    final_content,     \* run_workflow local: what _human_review_loop returned
    finalized_content, \* run_workflow local
    final_id,          \* run_workflow local
    result,            \* how run_workflow ended: "running", "None", "dict", or the exception raised
    console,           \* messages printed by the run
    failed_stores,     \* the ContentDatabase writes that raised during the run
    confirm,           \* _human_review_loop: the last answer of Confirm.ask
    decisions,         \* decisions consumed by the review loop of the run
    regenerates,       \* regenerate decisions among them
    api,               \* the last direct call of a ContentDatabase method or web endpoint
    requests           \* the web requests in progress: each one's store call

vars == <<db, next_id, ai_available, pc, text_content, original_id,
          ai_content, ai_id, current_content, iteration, action,
          edited_content, loop_exit, final_content, finalized_content,
          final_id, result, console, failed_stores, confirm, decisions,
          regenerates, api, requests>>

dbVars == <<db, next_id>>

\* ---------------------------------------------------------- ContentDatabase
Collections == {"original_content", "ai_generated", "reviews", "final_versions"}

\* db.py:27-30  the four collections, empty in a fresh database
EmptyDb == [c \in Collections |-> <<>>]

\* A store that trims the scraped text before filing it.
StoreOriginalContentStripped(d, id, text) ==
    [d EXCEPT !.original_content =
        Append(@, [id |-> id, content |-> Strip(text), content_type |-> "original"])]

\* A store that keeps only the record it files.
StoreOriginalContentOverwriting(d, id, text) ==
    [d EXCEPT !.original_content =
        <<[id |-> id, content |-> text, content_type |-> "original"]>>]

\* db.py:32-64
StoreOriginalContent(d, id, text) ==
    [d EXCEPT !.original_content =
        Append(@, [id |-> id, content |-> text, content_type |-> "original"])]

\* db.py:66-99
StoreAiGeneratedContent(d, id, oid, content, style, tone, version) ==
    [d EXCEPT !.ai_generated =
        Append(@, [id |-> id, content |-> content, original_id |-> oid,
                   style |-> style, tone |-> tone, version |-> version,
                   content_type |-> "ai_generated"])]

\* db.py:101-135  the document is the review's summary
StoreReview(d, id, cid, review) ==
    [d EXCEPT !.reviews =
        Append(@, [id |-> id, content |-> review.summary, content_id |-> cid,
                   overall_score |-> review.overall_score,
                   content_type |-> "review"])]

\* A store that trims the final text before filing it.
StoreFinalVersionStripped(d, id, cid, content) ==
    [d EXCEPT !.final_versions =
        Append(@, [id |-> id, content |-> Strip(content), content_id |-> cid,
                   content_type |-> "final_version", status |-> "published"])]

\* A store that replaces the final version already filed under the same content id.
StoreFinalVersionSuperseding(d, id, cid, content) ==
    [d EXCEPT !.final_versions =
        Append(SelectSeq(@, LAMBDA r : r.content_id # cid),
               [id |-> id, content |-> content, content_id |-> cid,
                content_type |-> "final_version", status |-> "published"])]

\* A store that files the final version as still pending.
StoreFinalVersionPending(d, id, cid, content) ==
    [d EXCEPT !.final_versions =
        Append(@, [id |-> id, content |-> content, content_id |-> cid,
                   content_type |-> "final_version", status |-> "pending"])]

\* db.py:137-167
StoreFinalVersion(d, id, cid, content) ==
    [d EXCEPT !.final_versions =
        Append(@, [id |-> id, content |-> content, content_id |-> cid,
                   content_type |-> "final_version", status |-> "published"])]

\* A lookup that searches every collection, whatever name it is given.
GetContentByIdAnywhere(d, id, collection_name) ==
    SelectSeq(d.original_content \o d.ai_generated \o d.reviews \o d.final_versions,
              LAMBDA r : r.id = id)

\* A lookup that falls back to the originals for a name that is no collection.
GetContentByIdDefaultPartition(d, id, collection_name) ==
    IF collection_name \notin Collections
    THEN SelectSeq(d.original_content, LAMBDA r : r.id = id)
    ELSE SelectSeq(d[collection_name], LAMBDA r : r.id = id)

\* db.py:169-196  the record with that id in the named collection, if any
GetContentById(d, id, collection_name) ==
    IF collection_name \notin Collections THEN <<>>
    ELSE SelectSeq(d[collection_name], LAMBDA r : r.id = id)

\* A history whose final version is the first record of the partition, whatever
\* content it finalizes.
GetContentHistoryAnyFinal(d, oid) ==
    [original |-> GetContentById(d, oid, "original_content"),
     ai_versions |-> SelectSeq(d.ai_generated, LAMBDA r : r.original_id = oid),
     reviews |-> SelectSeq(d.reviews, LAMBDA r : r.content_id = oid),
     final_version |->
        IF d.final_versions = <<>> THEN <<>> ELSE <<d.final_versions[1]>>]

\* A history that lists every draft of the partition, whatever original it rewrites.
GetContentHistoryAllDrafts(d, oid) ==
    [original |-> GetContentById(d, oid, "original_content"),
     ai_versions |-> d.ai_generated,
     reviews |-> SelectSeq(d.reviews, LAMBDA r : r.content_id = oid),
     final_version |->
        LET f == SelectSeq(d.final_versions, LAMBDA r : r.content_id = oid)
        IN  IF f = <<>> THEN <<>> ELSE <<f[1]>>]

\* db.py:236-305  the original, its drafts, the reviews filed under the
\* original's id and the first final version filed under it.  Absent values
\* (None) are empty sequences.
GetContentHistory(d, oid) ==
    [original |-> GetContentById(d, oid, "original_content"),
     ai_versions |-> SelectSeq(d.ai_generated, LAMBDA r : r.original_id = oid),
     reviews |-> SelectSeq(d.reviews, LAMBDA r : r.content_id = oid),
     final_version |->
        LET f == SelectSeq(d.final_versions, LAMBDA r : r.content_id = oid)
        IN  IF f = <<>> THEN <<>> ELSE <<f[1]>>]

\* The records of a database, of all four collections.
Records(d) == UNION {{d[c][i] : i \in DOMAIN d[c]} : c \in Collections}

\* uuid.uuid4(): an id that no record carries
FreshId(d) ==
    IF Records(d) = {} THEN 1
    ELSE 1 + (CHOOSE m \in {r.id : r \in Records(d)} :
                 \A r \in Records(d) : r.id <= m)

\* What an earlier, completed run left in the persistent database: an original,
\* its draft, the review of the draft and the final version.
PriorDb ==
    StoreFinalVersion(
        StoreReview(
            StoreAiGeneratedContent(
                StoreOriginalContent(EmptyDb, 1, <<"p">>),
                2, 1, <<"q">>, Style, Tone, DefaultVersion),
            3, 2, [isdict |-> TRUE, overall_score |-> 8,
                   summary |-> "provider summary"]),
        4, 1, <<"q">>)

\* The database is persistent (db.py:24): a run starts on a fresh one or on one
\* that holds earlier work.
InitialDbs == {EmptyDb, PriorDb}

\* The delete mutated to cascade: the id is removed from every collection, and
\* so are the records filed under it.
DeleteContentCascading(d, id, collection_name) ==
    IF collection_name \notin Collections THEN d
    ELSE [c \in Collections |->
            SelectSeq(d[c], LAMBDA r :
                /\ r.id # id
                /\ (c = "ai_generated" => r.original_id # id)
                /\ (c \in {"reviews", "final_versions"} => r.content_id # id))]

\* db.py:318-324  collection.delete(ids=[content_id]) in the named collection:
\* the record with that id goes, if there is one; an id that is not there is
\* no error
DeleteContent(d, id, collection_name) ==
    IF collection_name \notin Collections THEN d
    ELSE [d EXCEPT ![collection_name] = SelectSeq(@, LAMBDA r : r.id # id)]

\* db.py:318-329  False for a name that is no collection and when the delete
\* raised, True otherwise
DeleteContentReturns(collection_name, raised) ==
    collection_name \in Collections /\ ~raised

\* The ids of the records of one collection.
IdsOf(d, c) == {d[c][i].id : i \in DOMAIN d[c]}

\* An id that no record carries (a content_id a client made up).
UnknownId == 99

\* Collection names a caller can pass.
CollectionNames == Collections \cup {"no_such_collection"}

\* Texts a caller can pass as the primary text.
ApiTexts == {<<"a">>, <<SP, "a">>}

\* No direct call was made yet.
NoCall ==
    [n |-> 0, op |-> "none", collection |-> "none", key |-> NoId,
     text |-> EmptyText, ret_id |-> NoId, ret_ok |-> FALSE, raised |-> FALSE]

\* web_server.py:522  app.run serves each request in a thread of its own
Callers == 1 .. MaxCallers

\* A request that has not called the store yet.
IdleRequest ==
    [pc |-> "idle", op |-> "none", collection |-> "none", key |-> NoId,
     arg |-> "none", text |-> EmptyText, id |-> NoId]

NoRequests == [c \in Callers |-> IdleRequest]

\* ---------------------------------------------------------------- AI agents
\* What the generative model does with one request: it raises (NoneText) or
\* answers with a text.
ProviderOutcomes == {NoneText} \cup {Some(t) : t \in ProviderTexts}

\* What the generative model does with a review request: it raises, answers
\* with text that is no JSON, with JSON that is no object, or with a JSON object.
ReviewOutcomes == {"error", "not_json", "json_nondict", "json_dict"}

\* ai_agents.py:30-64  the rewritten text, or the input when the provider fails
SpinChapter(original_content, provider) ==
    IF provider.isNone THEN original_content ELSE provider.text

\* ai_agents.py:78-141  never raises; json.loads decides the shape of the result
ReviewContent(provider) ==
    CASE provider = "error" ->
            [isdict |-> TRUE, overall_score |-> 5,
             summary |-> "Review failed due to error"]
      [] provider = "not_json" ->
            [isdict |-> TRUE, overall_score |-> 7,
             summary |-> "AI review completed but response format was unexpected"]
      [] provider = "json_dict" ->
            [isdict |-> TRUE, overall_score |-> 8, summary |-> "provider summary"]
      [] OTHER ->
            [isdict |-> FALSE, overall_score |-> 0, summary |-> "not a mapping"]

\* An improver that answers with nothing when the provider fails.
SuggestImprovementsEmptyOnFailure(content, review, provider) ==
    IF provider.isNone THEN EmptyText ELSE provider.text

\* ai_agents.py:143-171  the improved text, or the input when the provider fails
SuggestImprovements(content, review, provider) ==
    IF provider.isNone THEN content ELSE provider.text

\* A finalizer that goes back to the scraped text when the provider fails.
FinalizeContentFromOriginal(content, provider) ==
    IF provider.isNone THEN text_content ELSE provider.text

\* A finalizer that answers with nothing when the provider fails.
FinalizeContentEmptyOnFailure(content, provider) ==
    IF provider.isNone THEN EmptyText ELSE provider.text

\* ai_agents.py:185-220  the finalized text, or the input when the provider fails
FinalizeContent(content, provider) ==
    IF provider.isNone THEN content ELSE provider.text

\* main.py:274-294  review.get(...) raises AttributeError on a value that is no dict
ShowReviewSummaryRaises(review) == ~review.isdict

\* db.py:114-126  review_data.get(...) raises AttributeError on a value that is no dict
StoreReviewRaises(review) == ~review.isdict

Init ==
    /\ \E d \in InitialDbs :
         /\ db = d
         /\ next_id = FreshId(d)
    /\ ai_available \in BOOLEAN
    /\ pc = "idle"
    /\ text_content = EmptyText
    /\ original_id = Unbound
    /\ ai_content = EmptyText
    /\ ai_id = Unbound
    /\ current_content = EmptyText
    /\ iteration = FirstIteration
    /\ action = "none"
    /\ edited_content = EmptyText
    /\ loop_exit = "none"
    /\ final_content = NoneText
    /\ finalized_content = EmptyText
    /\ final_id = Unbound
    /\ result = "running"
    /\ console = {}
    /\ failed_stores = {}
    /\ confirm = FALSE
    /\ decisions = 0
    /\ regenerates = 0
    /\ api = NoCall
    /\ requests = NoRequests


\* ------------------------------------------------------------ run_workflow
\* The loop test with the budget one short.
WhileTestOneShort(it) == it < max_iterations

\* main.py:182  while iteration <= max_iterations
WhileTest(it) == it <= max_iterations

\* main.py:182, 259-260  back to the prompt, or out of the loop with the current draft
LoopBack(it, cur) ==
    IF WhileTest(it)
    THEN /\ pc' = "prompt"
         /\ loop_exit' = "none"
         /\ final_content' = final_content
    ELSE /\ pc' = "returned"
         /\ loop_exit' = "max"
         /\ final_content' = Some(cur)

\* main.py:45-71  Step 1: scrape, store the original
Step1 ==
    /\ pc = "idle"
    /\ ai_content' = EmptyText
    /\ ai_id' = Unbound
    /\ current_content' = EmptyText
    /\ iteration' = FirstIteration
    /\ action' = "none"
    /\ edited_content' = EmptyText
    /\ loop_exit' = "none"
    /\ confirm' = FALSE
    /\ decisions' = 0
    /\ regenerates' = 0
    /\ final_content' = NoneText
    /\ finalized_content' = EmptyText
    /\ final_id' = Unbound
    /\ UNCHANGED ai_available
    /\ \/ \* scraper.scrape_content raises
          /\ text_content' = EmptyText
          /\ original_id' = Unbound
          /\ console' = {"scrape_error"}
          /\ failed_stores' = {}
          /\ result' = "None"
          /\ pc' = "done"
          /\ UNCHANGED dbVars
       \/ \* the scrape succeeds, store_original_content raises
          \E t \in ScrapeTexts :
            /\ text_content' = t
            /\ original_id' = Unbound
            /\ console' = {"scrape_error"}
            /\ failed_stores' = {"original"}
            /\ result' = "None"
            /\ pc' = "done"
            /\ UNCHANGED dbVars
       \/ \* both succeed
          \E t \in ScrapeTexts :
            /\ text_content' = t
            /\ original_id' = next_id
            /\ db' = StoreOriginalContent(db, next_id, t)
            /\ next_id' = next_id + 1
            /\ console' = {}
            /\ failed_stores' = {}
            /\ result' = "running"
            /\ pc' = "step2"
    /\ UNCHANGED <<api, requests>>

\* The initial draft of Step 2 is stored with the default version.
\* main.py:85-87
InitialVersion == DefaultVersion

\* main.py:73-100, 178-182  Step 2: AI draft, store it, enter the review loop
Step2 ==
    /\ pc = "step2"
    /\ \/ /\ ai_available
          /\ \E p \in ProviderOutcomes :
               \/ \* store_ai_generated_content succeeds
                  /\ ai_content' = SpinChapter(text_content, p)
                  /\ ai_id' = next_id
                  /\ db' = StoreAiGeneratedContent(db, next_id, original_id,
                              SpinChapter(text_content, p), Style, Tone,
                              InitialVersion)
                  /\ next_id' = next_id + 1
                  /\ UNCHANGED <<console, failed_stores>>
               \/ \* store_ai_generated_content raises
                  /\ ai_content' = text_content
                  /\ ai_id' = NoId
                  /\ console' = console \cup {"ai_gen_error"}
                  /\ failed_stores' = failed_stores \cup {"draft"}
                  /\ UNCHANGED dbVars
       \/ /\ ~ai_available
          /\ ai_content' = text_content
          /\ ai_id' = NoId
          /\ UNCHANGED <<dbVars, console, failed_stores>>
    /\ current_content' = ai_content'
    /\ iteration' = FirstIteration
    /\ LoopBack(FirstIteration, ai_content')
    /\ UNCHANGED <<ai_available, text_content, original_id, action,
                   edited_content, finalized_content, final_id, result,
                   confirm, decisions, regenerates>>
    /\ UNCHANGED <<api, requests>>

\* ------------------------------------------------------ _human_review_loop
\* An increment that counts every pass twice.
NextIterationTwice(it) == it + 2

\* main.py:257  iteration += 1
NextIteration(it) == it + 1

\* main.py:210  if edited_content.strip():
EditApplies(t) == Truthy(Strip(t))

\* main.py:195-197  approve: return current_content
Approve ==
    /\ pc = "prompt"
    /\ action' = "approve"
    /\ decisions' = decisions + 1
    /\ pc' = "returned"
    /\ loop_exit' = "approved"
    /\ final_content' = Some(current_content)
    /\ console' = console
    /\ UNCHANGED <<dbVars, ai_available, text_content, original_id,
                   ai_content, ai_id, current_content, iteration,
                   edited_content, finalized_content, final_id, result,
                   failed_stores, confirm, regenerates>>
    /\ UNCHANGED <<api, requests>>

\* main.py:199-201, 257  cancel: return None when confirmed, else fall through
\* to the increment at the end of the loop body
Cancel ==
    /\ pc = "prompt"
    /\ action' = "cancel"
    /\ decisions' = decisions + 1
    /\ \E c \in BOOLEAN :
         /\ confirm' = c
         /\ IF c
            THEN /\ pc' = "returned"
                 /\ loop_exit' = "cancelled"
                 /\ final_content' = NoneText
                 /\ iteration' = iteration
            ELSE /\ iteration' = NextIteration(iteration)
                 /\ LoopBack(NextIteration(iteration), current_content)
    /\ UNCHANGED <<dbVars, ai_available, text_content, original_id,
                   ai_content, ai_id, current_content, edited_content,
                   finalized_content, final_id, result, console,
                   failed_stores, regenerates>>
    /\ UNCHANGED <<api, requests>>

\* main.py:203-214, 257  edit: a text that is not blank replaces the draft
Edit ==
    /\ pc = "prompt"
    /\ action' = "edit"
    /\ decisions' = decisions + 1
    /\ \E t \in EditTexts :
         /\ edited_content' = t
         /\ IF EditApplies(t)
            THEN /\ current_content' = t
                 /\ console' = console
            ELSE /\ current_content' = current_content
                 /\ console' = console
         /\ iteration' = NextIteration(iteration)
         /\ LoopBack(NextIteration(iteration), current_content')
    /\ UNCHANGED <<dbVars, ai_available, text_content, original_id,
                   ai_content, ai_id, finalized_content, final_id, result,
                   failed_stores, confirm, regenerates>>
    /\ UNCHANGED <<api, requests>>

\* main.py:230  version=iteration
RegenerateVersion(it) == it

\* main.py:216-237, 257  regenerate
Regenerate ==
    /\ pc = "prompt"
    /\ action' = "regenerate"
    /\ decisions' = decisions + 1
    /\ regenerates' = regenerates + 1
    /\ \/ \* main.py:217-219  AI not available: continue, without the increment
          /\ ~ai_available
          /\ decisions < MaxDecisions
          /\ console' = console
          /\ iteration' = iteration
          /\ current_content' = current_content
          /\ LoopBack(iteration, current_content)
          /\ UNCHANGED <<dbVars, failed_stores>>
       \/ /\ ai_available
          /\ \E p \in ProviderOutcomes :
               /\ current_content' = SpinChapter(text_content, p)
               /\ \/ \* no stored first draft: nothing is stored
                     /\ ~TruthyId(ai_id)
                     /\ console' = console
                     /\ UNCHANGED <<dbVars, failed_stores>>
                  \/ \* store_ai_generated_content succeeds
                     /\ TruthyId(ai_id)
                     /\ db' = StoreAiGeneratedContent(db, next_id, original_id,
                                 SpinChapter(text_content, p), Style, Tone,
                                 RegenerateVersion(iteration))
                     /\ next_id' = next_id + 1
                     /\ console' = console
                     /\ UNCHANGED failed_stores
                  \/ \* store_ai_generated_content raises, after the assignment
                     /\ TruthyId(ai_id)
                     /\ console' = console
                     /\ failed_stores' = failed_stores \cup {"regen"}
                     /\ UNCHANGED dbVars
          /\ iteration' = NextIteration(iteration)
          /\ LoopBack(NextIteration(iteration), current_content')
    /\ UNCHANGED <<ai_available, text_content, original_id, ai_content,
                   ai_id, edited_content, finalized_content, final_id, result,
                   confirm>>
    /\ UNCHANGED <<api, requests>>

\* main.py:239-257  review
Review ==
    /\ pc = "prompt"
    /\ action' = "review"
    /\ decisions' = decisions + 1
    /\ \/ /\ ai_available
          /\ \E r \in ReviewOutcomes :
               IF ShowReviewSummaryRaises(ReviewContent(r))
               THEN /\ console' = console
                    /\ current_content' = current_content
                    /\ confirm' = confirm
               ELSE \E c \in BOOLEAN, p \in ProviderOutcomes :
                    /\ confirm' = c
                    /\ console' = console
                    /\ current_content' =
                         IF c THEN SuggestImprovements(current_content,
                                                       ReviewContent(r), p)
                              ELSE current_content
       \/ /\ ~ai_available
          /\ console' = console
          /\ current_content' = current_content
          /\ confirm' = confirm
    /\ iteration' = NextIteration(iteration)
    /\ LoopBack(NextIteration(iteration), current_content')
    /\ UNCHANGED <<dbVars, ai_available, text_content, original_id,
                   ai_content, ai_id, edited_content, finalized_content,
                   final_id, result, failed_stores, regenerates>>
    /\ UNCHANGED <<api, requests>>

\* ------------------------------------------------- run_workflow, continued
\* A test that lets every loop result through to Step 4.
LoopCancelledNever(v) == FALSE

\* main.py:113  if not final_content:
LoopCancelled(v) == ~TruthyOpt(v)

\* main.py:113-148  the cancellation test and Step 4: final review, finalization
Step4 ==
    /\ pc = "returned"
    /\ \/ /\ LoopCancelled(final_content)
          /\ console' = console \cup {"cancelled"}
          /\ result' = "None"
          /\ pc' = "done"
          /\ UNCHANGED <<dbVars, finalized_content, failed_stores>>
       \/ /\ ~LoopCancelled(final_content)
          /\ ~ai_available
          /\ finalized_content' = final_content.text
          /\ pc' = "step5"
          /\ UNCHANGED <<dbVars, console, result, failed_stores>>
       \/ /\ ~LoopCancelled(final_content)
          /\ ai_available
          /\ pc' = "step5"
          /\ result' = result
          /\ \E r \in ReviewOutcomes :
               \/ \* the review is no dict: store_review or _show_review_summary raises
                  /\ IF TruthyId(ai_id)
                       THEN StoreReviewRaises(ReviewContent(r))
                       ELSE ShowReviewSummaryRaises(ReviewContent(r))
                  /\ console' = console \cup {"finalize_error"}
                  /\ finalized_content' = final_content.text
                  /\ UNCHANGED <<dbVars, failed_stores>>
               \/ \* store_review raises in the collection
                  /\ TruthyId(ai_id)
                  /\ ~StoreReviewRaises(ReviewContent(r))
                  /\ console' = console \cup {"finalize_error"}
                  /\ failed_stores' = failed_stores \cup {"review"}
                  /\ finalized_content' = final_content.text
                  /\ UNCHANGED dbVars
               \/ \* the review is stored under the draft's id, then finalize
                  /\ TruthyId(ai_id)
                  /\ ~StoreReviewRaises(ReviewContent(r))
                  /\ db' = StoreReview(db, next_id, ai_id, ReviewContent(r))
                  /\ next_id' = next_id + 1
                  /\ \E p \in ProviderOutcomes :
                       finalized_content' = FinalizeContent(final_content.text, p)
                  /\ console' = console
                  /\ UNCHANGED failed_stores
               \/ \* no stored draft: no review is stored, then finalize
                  /\ ~TruthyId(ai_id)
                  /\ ~ShowReviewSummaryRaises(ReviewContent(r))
                  /\ \E p \in ProviderOutcomes :
                       finalized_content' = FinalizeContent(final_content.text, p)
                  /\ console' = console
                  /\ UNCHANGED <<dbVars, failed_stores>>
    /\ UNCHANGED <<ai_available, text_content, original_id, ai_content,
                   ai_id, current_content, iteration, action, edited_content,
                   loop_exit, final_content, final_id, confirm, decisions,
                   regenerates>>
    /\ UNCHANGED <<api, requests>>

\* main.py:167-172  return {... "final_id": final_id ...}: reading a local that
\* was never assigned raises UnboundLocalError
ReturnValue(fid) == IF fid = Unbound THEN "UnboundLocalError" ELSE "dict"

\* main.py:150-172  Step 5: store the final version, report, return
Step5 ==
    /\ pc = "step5"
    /\ \/ \* store_final_version succeeds
          /\ final_id' = next_id
          /\ db' = StoreFinalVersion(db, next_id, original_id, finalized_content)
          /\ next_id' = next_id + 1
          /\ console' = console \cup {"completed"}
          /\ UNCHANGED failed_stores
       \/ \* store_final_version raises: the error is printed, final_id stays unassigned
          /\ final_id' = final_id
          /\ console' = console \cup {"final_store_error", "completed"}
          /\ failed_stores' = failed_stores \cup {"final"}
          /\ UNCHANGED dbVars
    /\ result' = ReturnValue(final_id')
    /\ pc' = "done"
    /\ UNCHANGED <<ai_available, text_content, original_id, ai_content,
                   ai_id, current_content, iteration, action, edited_content,
                   loop_exit, final_content, finalized_content, confirm,
                   decisions, regenerates>>
    /\ UNCHANGED <<api, requests>>

Next ==
    \/ Step1
    \/ Step2
    \/ Review
    \/ Regenerate
    \/ Edit
    \/ Approve
    \/ Cancel
    \/ Step4
    \/ Step5

Spec == Init /\ [][Next]_vars

\* --------------------------------------- direct calls of the store and the web
\* The workflow is not running while the store is called directly.
workflowVars == <<ai_available, pc, text_content, original_id, ai_content,
                  ai_id, current_content, iteration, action, edited_content,
                  loop_exit, final_content, finalized_content, final_id,
                  result, console, failed_stores, confirm, decisions,
                  regenerates>>

\* The record of a call: what was called with what, and what came back.
Call(op, collection, key, text, ret_id, ret_ok, raised) ==
    [n |-> api.n + 1, op |-> op, collection |-> collection, key |-> key,
     text |-> text, ret_id |-> ret_id, ret_ok |-> ret_ok, raised |-> raised]

\* db.py:32-64  store_original_content(content_data)
ApiStoreOriginalContent ==
    /\ api.n < MaxApiCalls
    /\ \E t \in ApiTexts :
         \/ /\ db' = StoreOriginalContent(db, next_id, t)
            /\ next_id' = next_id + 1
            /\ api' = Call("store_original_content", "original_content",
                           NoId, t, next_id, TRUE, FALSE)
         \/ \* collection.add raises
            /\ UNCHANGED dbVars
            /\ api' = Call("store_original_content", "original_content",
                           NoId, t, NoId, FALSE, TRUE)
    /\ UNCHANGED <<workflowVars, requests>>

\* db.py:66-99  store_ai_generated_content(original_id, content, style, tone)
ApiStoreAiGeneratedContent ==
    /\ api.n < MaxApiCalls
    /\ \E t \in ApiTexts, k \in IdsOf(db, "original_content") \cup {UnknownId} :
         \/ /\ db' = StoreAiGeneratedContent(db, next_id, k, t, Style, Tone,
                                              DefaultVersion)
            /\ next_id' = next_id + 1
            /\ api' = Call("store_ai_generated_content", "ai_generated",
                           k, t, next_id, TRUE, FALSE)
         \/ \* collection.add raises
            /\ UNCHANGED dbVars
            /\ api' = Call("store_ai_generated_content", "ai_generated",
                           k, t, NoId, FALSE, TRUE)
    /\ UNCHANGED <<workflowVars, requests>>

\* db.py:101-135  store_review(content_id, review_data)
ApiStoreReview ==
    /\ api.n < MaxApiCalls
    /\ \E r \in {"json_dict", "json_nondict"},
          k \in IdsOf(db, "original_content") \cup IdsOf(db, "ai_generated") :
         \/ /\ ~StoreReviewRaises(ReviewContent(r))
            /\ db' = StoreReview(db, next_id, k, ReviewContent(r))
            /\ next_id' = next_id + 1
            /\ api' = Call("store_review", "reviews", k,
                           ReviewContent(r).summary, next_id, TRUE, FALSE)
         \/ \* review_data.get or collection.add raises
            /\ UNCHANGED dbVars
            /\ api' = Call("store_review", "reviews", k,
                           ReviewContent(r).summary, NoId, FALSE, TRUE)
    /\ UNCHANGED <<workflowVars, requests>>

\* db.py:137-167  store_final_version(content_id, final_content)
ApiStoreFinalVersion ==
    /\ api.n < MaxApiCalls
    /\ \E t \in ApiTexts, k \in IdsOf(db, "original_content") :
         \/ /\ db' = StoreFinalVersion(db, next_id, k, t)
            /\ next_id' = next_id + 1
            /\ api' = Call("store_final_version", "final_versions", k, t,
                           next_id, TRUE, FALSE)
         \/ \* collection.add raises
            /\ UNCHANGED dbVars
            /\ api' = Call("store_final_version", "final_versions", k, t,
                           NoId, FALSE, TRUE)
    /\ UNCHANGED <<workflowVars, requests>>

\* db.py:307-329  delete_content(content_id, collection_name)
ApiDeleteContent ==
    /\ api.n < MaxApiCalls
    /\ \E id \in {r.id : r \in Records(db)} \cup {UnknownId},
          c \in CollectionNames, raised \in BOOLEAN :
         /\ raised => c \in Collections
         /\ db' = IF raised THEN db ELSE DeleteContent(db, id, c)
         /\ api' = Call("delete_content", c, id, EmptyText, NoId,
                        DeleteContentReturns(c, raised), FALSE)
    /\ UNCHANGED <<next_id, workflowVars, requests>>

\* web_server.py:196-219  POST /api/publish {content, original_id}
PublishContent ==
    /\ api.n < MaxApiCalls
    /\ \E t \in ApiTexts \cup {EmptyText},
          k \in IdsOf(db, "original_content") \cup {NoId, UnknownId} :
         \/ \* 400: content and original_id are required
            /\ ~Truthy(t) \/ ~TruthyId(k)
            /\ UNCHANGED dbVars
            /\ api' = Call("publish_content", "final_versions", k, t, NoId,
                           FALSE, FALSE)
         \/ \* 200: the final version is stored under the given original_id
            /\ Truthy(t) /\ TruthyId(k)
            /\ db' = StoreFinalVersion(db, next_id, k, t)
            /\ next_id' = next_id + 1
            /\ api' = Call("publish_content", "final_versions", k, t, next_id,
                           TRUE, FALSE)
         \/ \* 500: store_final_version raises
            /\ Truthy(t) /\ TruthyId(k)
            /\ UNCHANGED dbVars
            /\ api' = Call("publish_content", "final_versions", k, t, NoId,
                           FALSE, TRUE)
    /\ UNCHANGED <<workflowVars, requests>>

NextStore ==
    \/ ApiStoreOriginalContent
    \/ ApiStoreAiGeneratedContent
    \/ ApiStoreReview
    \/ ApiStoreFinalVersion
    \/ ApiDeleteContent
    \/ PublishContent

\* The store as its callers other than one run_workflow use it.
SpecStore == Init /\ [][NextStore]_vars

\* The web client publishing final versions, on a fresh database or after a
\* completed run_workflow (web_server.py:196-219).
SpecPublish == Init /\ [][PublishContent]_vars

\* ------------------------------------------------- lookups in the store
\* db.py:185-196  get_content_by_id: a collection.get that raises is logged
\* and the method returns None
GetContentByIdGuarded(d, id, collection_name, raises) ==
    IF raises THEN <<>> ELSE GetContentById(d, id, collection_name)

\* db.py:246-305  get_content_history: each of the four reads is in its own
\* try; a read that raises leaves its entry as initialised (None or [])
GetContentHistoryGuarded(d, oid, failing) ==
    LET h == GetContentHistory(d, oid)
    IN  [original |->
            GetContentByIdGuarded(d, oid, "original_content",
                                  "original_content" \in failing),
         ai_versions |-> IF "ai_generated" \in failing THEN <<>> ELSE h.ai_versions,
         reviews |-> IF "reviews" \in failing THEN <<>> ELSE h.reviews,
         final_version |->
            IF "final_versions" \in failing THEN <<>> ELSE h.final_version]

\* The records of col at the positions in S, in the order of col.
RECURSIVE PickFrom(_, _, _)
PickFrom(col, S, i) ==
    IF i > Len(col) THEN <<>>
    ELSE (IF i \in S THEN <<col[i]>> ELSE <<>>) \o PickFrom(col, S, i + 1)

Min(a, b) == IF a < b THEN a ELSE b

\* A query that returns the whole collection, whatever number was asked for.
QueryAll(col, n_results) == {col}

\* collection.query(query_texts, n_results): the n_results records nearest to
\* the query, all of them when the collection has fewer.  Which records are
\* nearest is the embedding's matter: any choice of that many records.
Query(col, n_results) ==
    {PickFrom(col, S, 1) :
        S \in {T \in SUBSET DOMAIN col : Cardinality(T) = Min(n_results, Len(col))}}

\* db.py:216-220  collection.query raises for a number of results below one
QueryRaises(n_results) == n_results < 1

\* db.py:211-234  search_content: [] for a name that is no collection and when
\* the query raises, else one match per id the query returned
SearchContent(d, collection_name, n_results, raises) ==
    IF collection_name \notin Collections \/ raises \/ QueryRaises(n_results)
    THEN {<<>>}
    ELSE Query(d[collection_name], n_results)

\* The record of a lookup: what was asked and what came back.
Lookup(op, collection, key, text, limit, found) ==
    [n |-> api.n + 1, op |-> op, collection |-> collection, key |-> key,
     text |-> text, ret_id |-> NoId, ret_ok |-> FALSE, raised |-> FALSE,
     limit |-> limit, result |-> found]

\* Ids asked for: every id drawn so far, of a record that is still there or of
\* one that was deleted, and one that never was an id.
LookupIds == (1 .. next_id - 1) \cup {UnknownId}

\* db.py:169-196  get_content_by_id(content_id, collection_name)
ApiGetContentById ==
    /\ api.n < MaxApiCalls
    /\ \E id \in LookupIds, c \in CollectionNames, raises \in BOOLEAN :
         /\ raises => c \in Collections
         /\ api' = Lookup("get_content_by_id", c, id, EmptyText, 0,
                          GetContentByIdGuarded(db, id, c, raises))
    /\ UNCHANGED <<dbVars, workflowVars, requests>>

\* db.py:236-305  get_content_history(original_id)
ApiGetContentHistory ==
    /\ api.n < MaxApiCalls
    /\ \E id \in LookupIds, failing \in SUBSET Collections :
         /\ Cardinality(failing) <= 1
         /\ api' = Lookup("get_content_history", "all", id, EmptyText, 0,
                          GetContentHistoryGuarded(db, id, failing))
    /\ UNCHANGED <<dbVars, workflowVars, requests>>

\* db.py:198-234  search_content(query, collection_name, n_results)
ApiSearchContent ==
    /\ api.n < MaxApiCalls
    /\ \E q \in {EmptyText, <<"a">>}, c \in CollectionNames,
          n_results \in 0 .. MaxResults, raises \in BOOLEAN :
         /\ raises => c \in Collections
         /\ \E found \in SearchContent(db, c, n_results, raises) :
              api' = Lookup("search_content", c, NoId, q, n_results, found)
    /\ UNCHANGED <<dbVars, workflowVars, requests>>

\* Databases that earlier store and delete calls leave behind.
\* One original and nothing filed under it.
LoneOriginalDb == StoreOriginalContent(EmptyDb, 1, <<SP, "a">>)

\* Two lineages next to each other, the second with two drafts and no review
\* and no final version.
TwoLineagesDb ==
    StoreAiGeneratedContent(
        StoreAiGeneratedContent(
            StoreOriginalContent(PriorDb, 5, <<"a">>),
            6, 5, <<"b">>, Style, Tone, DefaultVersion),
        7, 5, <<"c">>, Style, Tone, DefaultVersion)

\* A lineage whose original was deleted: its draft, review and final version remain.
OrphanedDb == DeleteContent(PriorDb, 1, "original_content")

\* Four originals.
FourOriginalsDb ==
    StoreOriginalContent(
        StoreOriginalContent(
            StoreOriginalContent(LoneOriginalDb, 2, <<"b">>),
            3, <<"c">>),
        4, <<"d">>)

LookupDbs == InitialDbs \cup {LoneOriginalDb, TwoLineagesDb, OrphanedDb,
                              FourOriginalsDb}

\* The state in which the store is looked into: no run_workflow in progress.
InitLookup ==
    /\ \E d \in LookupDbs :
         /\ db = d
         /\ next_id = FreshId(d)
    /\ ai_available \in BOOLEAN
    /\ pc = "idle"
    /\ text_content = EmptyText
    /\ original_id = Unbound
    /\ ai_content = EmptyText
    /\ ai_id = Unbound
    /\ current_content = EmptyText
    /\ iteration = FirstIteration
    /\ action = "none"
    /\ edited_content = EmptyText
    /\ loop_exit = "none"
    /\ final_content = NoneText
    /\ finalized_content = EmptyText
    /\ final_id = Unbound
    /\ result = "running"
    /\ console = {}
    /\ failed_stores = {}
    /\ confirm = FALSE
    /\ decisions = 0
    /\ regenerates = 0
    /\ api = NoCall
    /\ requests = NoRequests

NextLookup ==
    \/ ApiGetContentById
    \/ ApiGetContentHistory
    \/ ApiSearchContent

\* The store read by get_content_by_id, get_content_history and search_content.
SpecLookup == InitLookup /\ [][NextLookup]_vars

\* ------------------------------------------------ direct calls of the agents
\* The keys the review prompt asks for (ai_agents.py:98-108).
ScoreKeys == {"overall_score", "grammar_score", "style_score", "engagement_score"}
ReviewKeys == ScoreKeys \cup {"strengths", "weaknesses", "suggestions", "summary"}

\* What the provider can answer a review request with: the outcomes above, and
\* a JSON object that does not follow the requested shape.
ReviewAnswers == ReviewOutcomes \cup {"json_other_shape"}

\* A review mapping with the same value for every score.
ReviewMapping(score, strengths, weaknesses, suggestions, summary) ==
    [overall_score |-> score, grammar_score |-> score, style_score |-> score,
     engagement_score |-> score, strengths |-> strengths,
     weaknesses |-> weaknesses, suggestions |-> suggestions,
     summary |-> summary]

\* ai_agents.py:111-141  review_content in full: the value json.loads produced,
\* as it is, or one of the two fixed mappings
ReviewData(provider) ==
    CASE provider = "error" ->
            [isdict |-> TRUE,
             data |-> ReviewMapping(5, <<>>, <<"AI review failed">>,
                                    <<"Manual review required">>,
                                    "Review failed due to error")]
      [] provider = "not_json" ->
            [isdict |-> TRUE,
             data |-> ReviewMapping(7, <<"Content is readable">>,
                         <<"Could not parse AI response properly">>,
                         <<"Review the content manually">>,
                         "AI review completed but response format was unexpected")]
      [] provider = "json_dict" ->
            [isdict |-> TRUE,
             data |-> ReviewMapping(8, <<"s">>, <<"w">>, <<"g">>, "provider summary")]
      [] provider = "json_other_shape" ->
            [isdict |-> TRUE, data |-> [overall_score |-> 11, comment |-> "fine"]]
      [] OTHER ->
            [isdict |-> FALSE, data |-> <<"fine">>]

\* Texts handed to the agents.
AgentTexts == ApiTexts \cup {EmptyText}

\* The record of a call of an agent: its input, what the provider did, the answer.
AgentCall(op, text, provider, answer) ==
    [n |-> api.n + 1, op |-> op, text |-> text, provider |-> provider,
     result |-> answer, raised |-> FALSE]

\* ai_agents.py:30-64  AIWriter.spin_chapter
ApiSpinChapter ==
    /\ api.n < MaxApiCalls
    /\ \E t \in AgentTexts, p \in ProviderOutcomes :
         api' = AgentCall("spin_chapter", t, p, SpinChapter(t, p))
    /\ UNCHANGED <<dbVars, workflowVars, requests>>

\* ai_agents.py:78-141  AIReviewer.review_content
ApiReviewContent ==
    /\ api.n < MaxApiCalls
    /\ \E t \in AgentTexts, r \in ReviewAnswers :
         api' = AgentCall("review_content", t, r, ReviewData(r))
    /\ UNCHANGED <<dbVars, workflowVars, requests>>

\* ai_agents.py:143-171  AIReviewer.suggest_improvements
ApiSuggestImprovements ==
    /\ api.n < MaxApiCalls
    /\ \E t \in AgentTexts, r \in ReviewOutcomes, p \in ProviderOutcomes :
         api' = AgentCall("suggest_improvements", t, p,
                          SuggestImprovements(t, ReviewContent(r), p))
    /\ UNCHANGED <<dbVars, workflowVars, requests>>

\* ai_agents.py:185-220  AIEditor.finalize_content
ApiFinalizeContent ==
    /\ api.n < MaxApiCalls
    /\ \E t \in AgentTexts, p \in ProviderOutcomes :
         api' = AgentCall("finalize_content", t, p, FinalizeContent(t, p))
    /\ UNCHANGED <<dbVars, workflowVars, requests>>

NextAgents ==
    \/ ApiSpinChapter
    \/ ApiReviewContent
    \/ ApiSuggestImprovements
    \/ ApiFinalizeContent

\* The three agents called directly, as ai_agents.main does (ai_agents.py:223-247).
SpecAgents == Init /\ [][NextAgents]_vars

\* ------------------------------------------------- concurrent web requests
\* The store calls a request can make, with their arguments: the collection
\* written to, the lineage key, and the text or (for store_review) the review.
StoreCalls(d) ==
    {[op |-> "store_original_content", collection |-> "original_content",
      key |-> NoId, arg |-> "none", text |-> t] : t \in ApiTexts}
    \cup
    {[op |-> "store_ai_generated_content", collection |-> "ai_generated",
      key |-> k, arg |-> "none", text |-> t] :
        t \in ApiTexts, k \in IdsOf(d, "original_content") \cup {UnknownId}}
    \cup
    {[op |-> "store_review", collection |-> "reviews",
      key |-> k, arg |-> r, text |-> EmptyText] :
        r \in {"json_dict", "not_json"}, k \in IdsOf(d, "ai_generated")}
    \cup
    {[op |-> "store_final_version", collection |-> "final_versions",
      key |-> k, arg |-> "none", text |-> t] :
        t \in ApiTexts, k \in IdsOf(d, "original_content")}

\* db.py:57-61, 92-96, 128-132, 160-164  the collection.add of the store call
\* of request r
CollectionAdd(d, r) ==
    CASE r.op = "store_original_content" ->
            StoreOriginalContent(d, r.id, r.text)
      [] r.op = "store_ai_generated_content" ->
            StoreAiGeneratedContent(d, r.id, r.key, r.text, Style, Tone,
                                    DefaultVersion)
      [] r.op = "store_review" ->
            StoreReview(d, r.id, r.key, ReviewContent(r.arg))
      [] OTHER ->
            StoreFinalVersion(d, r.id, r.key, r.text)

\* db.py:42, 81, 112, 150  a request enters its store call and draws the id:
\* uuid4 values do not repeat, whichever thread draws them
RequestDraw ==
    \E c \in Callers :
        /\ requests[c].pc = "idle"
        /\ \E call \in StoreCalls(db) :
             requests' = [requests EXCEPT ![c] =
                 [pc |-> "drawn", op |-> call.op, collection |-> call.collection,
                  key |-> call.key, arg |-> call.arg, text |-> call.text,
                  id |-> next_id]]
        /\ next_id' = next_id + 1
        /\ UNCHANGED <<db, api, workflowVars>>

\* db.py:57-64, 92-99, 128-135, 160-167  the request adds its record to the
\* collection and returns the id, or the add raises
RequestAdd ==
    \E c \in Callers :
        /\ requests[c].pc = "drawn"
        /\ \/ /\ db' = CollectionAdd(db, requests[c])
              /\ requests' = [requests EXCEPT ![c].pc = "stored"]
           \/ /\ db' = db
              /\ requests' = [requests EXCEPT ![c].pc = "failed"]
        /\ UNCHANGED <<next_id, api, workflowVars>>

NextConcurrent ==
    \/ RequestDraw
    \/ RequestAdd

\* Several requests storing through the one ContentDatabase of the web server
\* (web_server.py:27-41), each in its own thread.
SpecConcurrent == Init /\ [][NextConcurrent]_vars

\* ------------------------------------------------- the web history endpoints
\* web_server.py:334  the order in which the endpoint tries the collections
HistoryCollections ==
    <<"original_content", "ai_generated", "reviews", "final_versions">>

\* web_server.py:333-341  the position of the first collection whose
\* delete_content returns True, 0 when none does; failing holds the collections
\* whose collection.delete raises
RECURSIVE FirstDeleted(_, _)
FirstDeleted(failing, i) ==
    IF i > Len(HistoryCollections) THEN 0
    ELSE IF DeleteContentReturns(HistoryCollections[i],
                                 HistoryCollections[i] \in failing)
         THEN i
         ELSE FirstDeleted(failing, i + 1)

\* web_server.py:326-349  DELETE /api/history/<content_id>: ret_ok is the
\* answer, TRUE for {'status': 'success'}, FALSE for 404 'Content not found'
DeleteHistoryItem ==
    /\ api.n < MaxApiCalls
    /\ \E id \in {r.id : r \in Records(db)} \cup {UnknownId},
          failing \in SUBSET Collections :
         LET i == FirstDeleted(failing, 1)
         IN  /\ db' = IF i = 0 THEN db
                      ELSE DeleteContent(db, id, HistoryCollections[i])
             /\ api' = Call("delete_history_item",
                            IF i = 0 THEN "none" ELSE HistoryCollections[i],
                            id, EmptyText, NoId, i # 0, FALSE)
    /\ UNCHANGED <<next_id, workflowVars, requests>>

NextHistory ==
    \/ DeleteHistoryItem
    \/ ApiDeleteContent
    \/ PublishContent

\* The web client working on the history of a fresh database or of one that
\* holds a completed run.
SpecHistory == Init /\ [][NextHistory]_vars

\* ------------------------------------------------- the database self-tests
\* web_server.py:98-103, 446-451  test_content['text_content']
TestText == <<"t">>

\* web_server.py:104, 452  /api/test or /api/settings/test-connection enters
\* db.store_original_content(test_content) and draws the id (db.py:42)
ProbeDraw ==
    \E c \in Callers :
        /\ requests[c].pc = "idle"
        /\ requests' = [requests EXCEPT ![c] =
               [pc |-> "drawn", op |-> "store_original_content",
                collection |-> "original_content", key |-> NoId,
                arg |-> "test_system", text |-> TestText, id |-> next_id]]
        /\ next_id' = next_id + 1
        /\ UNCHANGED <<db, api, workflowVars>>

\* web_server.py:105-106, 453-458  db.delete_content(test_id): the record goes
\* from original_content, or collection.delete raises and delete_content
\* returns False (db.py:325-329); the return value is not looked at and the
\* self-test answers database: True / connected: True
ProbeDelete ==
    \E c \in Callers, raised \in BOOLEAN :
        /\ requests[c].arg = "test_system"
        /\ requests[c].pc = "stored"
        /\ db' = IF raised THEN db
                 ELSE DeleteContent(db, requests[c].id, "original_content")
        /\ requests' = [requests EXCEPT ![c].pc = "answered"]
        /\ UNCHANGED <<next_id, api, workflowVars>>

NextProbe ==
    \/ ProbeDraw
    \/ ProbeDelete
    \/ RequestDraw
    \/ RequestAdd

\* Self-tests of the web server running next to other requests' store calls.
SpecProbe == Init /\ [][NextProbe]_vars

\* ------------------------------------------------------------ clear_history
\* The state of the DELETE /api/history request: the position in the list of
\* collections, the statement it is at, the ids collection.get() returned, and
\* whether an error was printed for some collection.
Clearing(at, stmt, ids, failed) ==
    [n |-> 1, op |-> "clear_history", at |-> at, pc |-> stmt, ids |-> ids,
     failed |-> failed]

\* web_server.py:359, 371  the next collection of the loop, or the answer
\* {'status': 'success'} after the last one
ClearAdvance(at, failed) ==
    IF at < Len(HistoryCollections)
    THEN Clearing(at + 1, "get", {}, failed)
    ELSE Clearing(at, "answered", {}, failed)

\* web_server.py:359-365  results = collection.get(); if results['ids']:
ClearGet ==
    /\ api.op = "none" \/ (api.op = "clear_history" /\ api.pc = "get")
    /\ LET at     == IF api.op = "none" THEN 1 ELSE api.at
           failed == IF api.op = "none" THEN FALSE ELSE api.failed
           ids    == IdsOf(db, HistoryCollections[at])
       IN  \/ \* the collection holds records: on to the delete
              /\ ids # {}
              /\ api' = Clearing(at, "delete", ids, failed)
           \/ \* the collection holds none: on to the next collection
              /\ ids = {}
              /\ api' = ClearAdvance(at, failed)
           \/ \* collection.get raises: the error is printed (web_server.py:367-368)
              api' = ClearAdvance(at, TRUE)
    /\ UNCHANGED <<dbVars, workflowVars, requests>>

\* web_server.py:366-368  collection.delete(ids=results['ids']), or it raises
\* and the error is printed
ClearDelete ==
    /\ api.op = "clear_history"
    /\ api.pc = "delete"
    /\ \/ /\ db' = [db EXCEPT ![HistoryCollections[api.at]] =
                       SelectSeq(@, LAMBDA r : r.id \notin api.ids)]
          /\ api' = ClearAdvance(api.at, api.failed)
       \/ /\ db' = db
          /\ api' = ClearAdvance(api.at, TRUE)
    /\ UNCHANGED <<next_id, workflowVars, requests>>

NextClear ==
    \/ ClearGet
    \/ ClearDelete
    \/ RequestDraw
    \/ RequestAdd

\* One DELETE /api/history running next to other requests' store calls.
SpecClear == Init /\ [][NextClear]_vars

\* ================================================================== claims
\* The run has an original in the store.
HasOriginal == original_id # Unbound

\* The final versions filed under the run's original.
FinalsOfRun == SelectSeq(db.final_versions, LAMBDA r : r.content_id = original_id)

\* The step taken is a decision of the human at the prompt.
DecisionStep == pc = "prompt" /\ decisions' = decisions + 1

\* ---------------------------------------------------------------------- C1
\* C1: when the iteration counter exceeds max_iterations without an approve or
\* a confirmed cancel, the loop returns the current draft (never None), and
\* run_workflow treats that draft as approved: the run is not reported as
\* cancelled, does not return None, and goes on to store a final version for
\* the run's original (the store call itself may fail).
C1_MaxIterationsKeepsDraft ==
    /\ loop_exit = "max" =>
          /\ iteration > max_iterations
          /\ final_content = Some(current_content)
    /\ (pc = "done" /\ loop_exit = "max") =>
          /\ "cancelled" \notin console
          /\ result # "None"
          /\ \/ "final" \in failed_stores
             \/ \E i \in DOMAIN FinalsOfRun : FinalsOfRun[i].id = final_id

\* ---------------------------------------------------------------------- C2
\* C2 (as stated): whenever at most max_iterations non-approving decisions
\* have been given, a following approve is still accepted: the loop has not
\* force-exited.  So a loop that ended by MaxIterationsReached has consumed
\* more than max_iterations decisions.
C2_ApproveAfterAtMostMax ==
    loop_exit = "max" => decisions > max_iterations

\* C2 (amended): after fewer than max_iterations non-approving decisions a
\* following approve is accepted, and an accepted approve ends the loop in
\* Approved with the then-current draft and an iteration count of at most
\* max_iterations; a loop whose counter exceeds max_iterations without approval
\* ends in MaxIterationsReached with the last-seen draft, never None.
C2_ApproveAfterFewerThanMax ==
    /\ loop_exit = "max" =>
          /\ decisions >= max_iterations
          /\ iteration > max_iterations
          /\ final_content = Some(current_content)
    /\ loop_exit = "approved" =>
          /\ action = "approve"
          /\ iteration <= max_iterations
          /\ final_content = Some(current_content)
    /\ (loop_exit = "none" /\ pc \notin {"idle", "step2", "done"}) =>
          /\ pc = "prompt"
          /\ iteration <= max_iterations

\* C2 witness: four non-approving decisions, then approve at the last
\* iteration the budget allows.
C2_Witness ==
    /\ loop_exit = "approved"
    /\ decisions = max_iterations
    /\ iteration = max_iterations

\* ---------------------------------------------------------------------- C3
\* C3: with a budget of max_iterations, once max_iterations consecutive
\* regenerate decisions have been given (and nothing else) the loop has
\* force-exited with MaxIterationsReached and prompts no more, with the AI
\* agents available or not.
C3_RegeneratesExhaustBudget ==
    (regenerates = decisions /\ regenerates >= max_iterations) =>
        /\ pc # "prompt"
        /\ loop_exit = "max"

\* ---------------------------------------------------------------------- C4
\* C4: an edit whose text is empty or whitespace only leaves the draft and the
\* iteration counter unchanged; an edit with other text replaces the draft by
\* that text and advances the counter by exactly one.
C4_EditAdvancesOnlyOnText ==
    [][(DecisionStep /\ action' = "edit") =>
          IF Strip(edited_content') = EmptyText
          THEN /\ current_content' = current_content
               /\ iteration' = iteration
          ELSE /\ current_content' = edited_content'
               /\ iteration' = iteration + 1]_vars

\* ---------------------------------------------------------------------- C5
\* C5: a cancel the human does not confirm leaves the loop state unchanged:
\* same draft, same iteration counter, and the loop prompts again.
C5_UnconfirmedCancelIsNoOp ==
    [][(DecisionStep /\ action' = "cancel" /\ ~confirm') =>
          /\ current_content' = current_content
          /\ iteration' = iteration
          /\ pc' = "prompt"]_vars

\* ---------------------------------------------------------------------- C6
\* C6: a pass that handles regenerate or review advances the counter by
\* exactly one, whatever the AI does and whether or not it is available; an
\* unconfirmed cancel and a no-op edit are the only decisions that leave the
\* counter as it is while the loop goes on.
C6_CounterAdvancesPerPass ==
    [][DecisionStep =>
          /\ action' \in {"regenerate", "review"} => iteration' = iteration + 1
          /\ (action' = "cancel" /\ ~confirm') => iteration' = iteration
          /\ (action' = "edit" /\ Strip(edited_content') = EmptyText) =>
                iteration' = iteration]_vars

\* ---------------------------------------------------------------------- C7
\* C7: a run in which a ContentDatabase write failed ends by surfacing the
\* failure to its caller: it neither returns None nor returns a result, and is
\* not reported as a scrape failure, a cancellation or a success.
C7_StorageErrorSurfaces ==
    (pc = "done" /\ failed_stores # {}) =>
        /\ result \notin {"None", "dict"}
        /\ console \cap {"scrape_error", "cancelled", "completed"} = {}

\* ---------------------------------------------------------------------- C8
\* C8: when the scrape and every store succeed and the human does not cancel,
\* the run returns a result with original_id and final_id, the final version
\* being stored, whatever the AI calls did.
C8_AiFailuresNeverAbort ==
    (/\ pc = "done"
     /\ "scrape_error" \notin console
     /\ failed_stores = {}
     /\ loop_exit # "cancelled") =>
        /\ result = "dict"
        /\ original_id # Unbound
        /\ final_id # Unbound
        /\ \E i \in DOMAIN FinalsOfRun : FinalsOfRun[i].id = final_id

\* ---------------------------------------------------------------------- C9
\* The reviews linked to an original: filed under its id or under the id of
\* one of its drafts.
ReviewsLinkedTo(oid) ==
    SelectSeq(db.reviews, LAMBDA r :
        \/ r.content_id = oid
        \/ \E i \in DOMAIN db.ai_generated :
              /\ db.ai_generated[i].original_id = oid
              /\ db.ai_generated[i].id = r.content_id)

\* C9: after a run, the history of the run's original holds the original, every
\* draft of it, every review linked to it directly or through one of its
\* drafts, and its final version; so the review the run stored for its draft
\* is among history(original_id).reviews.
C9_HistoryHoldsLinkedReviews ==
    (pc = "done" /\ HasOriginal) =>
        LET h == GetContentHistory(db, original_id) IN
        /\ Len(h.original) = 1
        /\ h.ai_versions =
              SelectSeq(db.ai_generated, LAMBDA r : r.original_id = original_id)
        /\ h.reviews = ReviewsLinkedTo(original_id)
        /\ (FinalsOfRun # <<>>) => h.final_version = <<FinalsOfRun[1]>>

\* --------------------------------------------------------------------- C10
\* The ids of the originals that have drafts.
DraftedOriginals ==
    {db.ai_generated[i].original_id : i \in DOMAIN db.ai_generated}

\* The version numbers of the drafts of an original, in creation order.
VersionsOf(oid) ==
    LET ds == GetContentHistory(db, oid).ai_versions
    IN  [i \in DOMAIN ds |-> ds[i].version]

\* C10: the drafts of every original carry strictly increasing versions that
\* start at 1; and when the AI is available and every store succeeds, the
\* history of the run's original lists one regenerated draft per regenerate
\* decision, after the first draft.
C10_VersionsIncreaseFromOne ==
    /\ \A oid \in DraftedOriginals :
          LET v == VersionsOf(oid) IN
          /\ v[1] = 1
          /\ \A i \in 1 .. (Len(v) - 1) : v[i] < v[i + 1]
    /\ (HasOriginal /\ ai_available /\ failed_stores = {} /\ pc # "step2") =>
          Len(GetContentHistory(db, original_id).ai_versions) = 1 + regenerates

\* --------------------------------------------------------------------- C11
\* The final versions filed under an original id.
FinalsOf(k) ==
    {i \in DOMAIN db.final_versions : db.final_versions[i].content_id = k}

\* C11: in every state reached by run_workflow runs and /api/publish requests,
\* the final_versions partition holds at most one record per original id.
C11_AtMostOneFinalPerOriginal ==
    \A i \in DOMAIN db.final_versions :
        Cardinality(FinalsOf(db.final_versions[i].content_id)) <= 1

\* The records a collection received during the run: every id drawn after the
\* run's original was stored is larger than the original's.
StoredByRun(c) == SelectSeq(db[c], LAMBDA r : r.id > original_id)

\* C12: run_workflow returns None, raising nothing, after a scrape failure and
\* after a confirmed cancel.  After a confirmed cancel the run has stored no
\* review and no final version, and the history of the run's original shows the
\* original as scraped, every draft the run stored, and no final version.
C12_CancelReturnsNoneKeepsHistory ==
    /\ (pc = "done" /\ "scrape_error" \in console) => result = "None"
    /\ (pc = "done" /\ loop_exit = "cancelled") =>
          /\ result = "None"
          /\ StoredByRun("reviews") = <<>>
          /\ StoredByRun("final_versions") = <<>>
          /\ LET h == GetContentHistory(db, original_id)
             IN  /\ h.original = <<[id |-> original_id, content |-> text_content,
                                    content_type |-> "original"]>>
                 /\ h.ai_versions = StoredByRun("ai_generated")
                 /\ h.reviews = <<>>
                 /\ h.final_version = <<>>

\* A run cancelled after it stored two drafts, in a database that holds earlier work.
C12_Witness ==
    /\ pc = "done"
    /\ loop_exit = "cancelled"
    /\ confirm
    /\ Len(StoredByRun("ai_generated")) >= 2
    /\ db.final_versions # <<>>

\* The ids of the records of collection c that satisfy the test.
IdsWhere(c, Test(_)) == {db[c][i].id : i \in {j \in DOMAIN db[c] : Test(db[c][j])}}

\* The drafts, reviews and final versions that belong to the run in progress.
RunDraftIds == IdsWhere("ai_generated", LAMBDA r : r.original_id = original_id)
RunReviewIds ==
    IdsWhere("reviews", LAMBDA r : TruthyId(ai_id) /\ ai_id # Unbound /\ r.content_id = ai_id)
RunFinalIds == IdsWhere("final_versions", LAMBDA r : r.content_id = original_id)

\* The order in which the run created its records, read from their ids.
StagesInOrder ==
    /\ \A i \in RunDraftIds : original_id < i
    /\ \A i \in RunReviewIds : \A j \in RunDraftIds : j < i
    /\ \A i \in RunFinalIds : \A j \in RunDraftIds \cup RunReviewIds : j < i

\* What a step that writes to the store requires of the state it starts in.
StoresInOrder ==
    /\ db'.original_content # db.original_content =>
          /\ pc = "idle"
          /\ db'.ai_generated = db.ai_generated
    /\ db'.ai_generated # db.ai_generated =>
          /\ GetContentById(db, original_id, "original_content") # <<>>
          /\ loop_exit = "none"
          /\ pc \in {"step2", "prompt"}
    /\ (db'.reviews # db.reviews \/ db'.final_versions # db.final_versions) =>
          /\ loop_exit \in {"approved", "max"}
          /\ TruthyOpt(final_content)
    /\ db'.reviews # db.reviews => pc = "returned"
    /\ db'.final_versions # db.final_versions => pc = "step5"
    /\ db' # db => final_id = Unbound

\* C13: within one run_workflow the stages come in the order scrape, store
\* original, draft, review loop, AI review and store review, store final
\* version: no draft is stored before the original, no review and no final
\* version before the review loop has ended with content, nothing after the
\* final version.
C13_StagesInOrder == []StagesInOrder /\ [][StoresInOrder]_vars

\* A completed run that stored two drafts, a review and a final version.
C13_Witness ==
    /\ pc = "done"
    /\ result = "dict"
    /\ Cardinality(RunDraftIds) >= 2
    /\ RunReviewIds # {}
    /\ RunFinalIds # {}

\* The final version records filed under the run's original.
RunFinals == SelectSeq(db.final_versions, LAMBDA r : r.content_id = original_id)

\* With the AI agents unavailable: what the run presents and what it has filed.
DegradedRun ==
    /\ pc \in {"prompt", "returned", "step5", "done"} /\ original_id # Unbound =>
          /\ ai_content = text_content
          /\ ai_id = NoId
          /\ RunDraftIds = {}
    /\ pc = "prompt" /\ decisions = 0 => current_content = text_content
    /\ pc = "step5" => finalized_content = final_content.text
    /\ \A i \in DOMAIN RunFinals :
          /\ ~final_content.isNone
          /\ RunFinals[i].content = final_content.text

\* C14: with the AI agents unavailable the first draft presented is the scraped
\* text unmodified, no draft and no review record is ever written, and the
\* final version stored is exactly the content the review loop returned.
C14_UnavailableAiSkipsAiStages ==
    /\ [](~ai_available => DegradedRun)
    /\ [][~ai_available =>
            /\ db'.ai_generated = db.ai_generated
            /\ db'.reviews = db.reviews]_vars

\* A run without AI agents that filed an edited text, with leading blank, as
\* the final version, after the human asked for regenerate and review.
C14_Witness ==
    /\ ~ai_available
    /\ pc = "done"
    /\ result = "dict"
    /\ regenerates >= 1
    /\ RunFinals # <<>>
    /\ RunFinals[1].content = <<SP, "e">>

\* A regenerate decision whose store_ai_generated_content raised.
RegenerateStoreFailed ==
    /\ pc = "prompt"
    /\ action' = "regenerate"
    /\ "regen" \notin failed_stores
    /\ "regen" \in failed_stores'

\* A regenerate decision whose request to the generative model raised:
\* spin_chapter answered with something the model did not write.
RegenerateGenerationFailed ==
    /\ pc = "prompt"
    /\ action' = "regenerate"
    /\ ai_available
    /\ current_content' \notin ProviderTexts

\* C15: when a regenerate decision fails, in the generation or in the storing
\* of the new draft, the draft presented at the next prompt is the draft from
\* before the regenerate, and the loop goes on.
C15_FailedRegenerateKeepsDraft ==
    [][RegenerateStoreFailed \/ RegenerateGenerationFailed =>
         /\ current_content' = current_content
         /\ loop_exit' \in {"none", "max"}
         /\ result' = "running"]_vars

\* A record with that id is in the named partition.
Exists(d, id, c) == c \in Collections /\ id \in IdsOf(d, c)

\* The step is a call of delete_content.
DeleteStep == api'.n = api.n + 1 /\ api'.op = "delete_content"

\* C16: delete_content(id, partition) returns True exactly when a record with
\* that id was in that partition before the call, and the record is then gone;
\* it returns False when there was no such record.
C16_DeleteReportsExistence ==
    [][DeleteStep =>
         /\ api'.ret_ok <=> Exists(db, api'.key, api'.collection)
         /\ api'.ret_ok => ~Exists(db', api'.key, api'.collection)]_vars

\* The step deletes a draft that is in the drafts partition.
DraftDeleteStep ==
    /\ DeleteStep
    /\ api'.collection = "ai_generated"
    /\ api'.ret_ok
    /\ Exists(db, api'.key, "ai_generated")

\* The ids of a sequence of records.
SeqIds(rs) == {rs[i].id : i \in DOMAIN rs}

\* What deleting the draft with that id leaves behind.
DraftDeleted(id) ==
    LET draft == GetContentById(db, id, "ai_generated")[1]
        before == GetContentHistory(db, draft.original_id)
        after == GetContentHistory(db', draft.original_id)
    IN  /\ db'.original_content = db.original_content
        /\ db'.reviews = db.reviews
        /\ db'.final_versions = db.final_versions
        /\ after.original = before.original
        /\ after.original = GetContentById(db, draft.original_id, "original_content")
        /\ id \notin SeqIds(after.ai_versions)
        /\ after.ai_versions = SelectSeq(before.ai_versions, LAMBDA r : r.id # id)
        /\ \A i \in DOMAIN db.ai_generated :
              LET r == db.ai_generated[i]
              IN  r.original_id = draft.original_id /\ r.id # id =>
                    \E j \in DOMAIN after.ai_versions : after.ai_versions[j] = r

\* C17: deleting a draft from the drafts partition leaves the original, review
\* and final partitions unchanged, and the history of the draft's original then
\* shows the intact original and every other draft of it, without the deleted one.
C17_DraftDeleteIsPartitionScoped ==
    [][DraftDeleteStep => DraftDeleted(api'.key)]_vars

\* The first draft of an original was deleted after a second draft was stored:
\* the original, the review of the deleted draft and the final version are there.
C17_Witness ==
    /\ api.n = 2
    /\ api.op = "delete_content"
    /\ api.collection = "ai_generated"
    /\ api.key = 2
    /\ api.ret_ok
    /\ IdsOf(db, "ai_generated") = {5}
    /\ db.ai_generated[1].original_id = 1
    /\ IdsOf(db, "original_content") = {1}
    /\ db.reviews # <<>>
    /\ db.final_versions # <<>>

\* The four store operations.
StoreOps == {"store_original_content", "store_ai_generated_content",
             "store_review", "store_final_version"}

\* The step is a call of a store operation; it returned an id.
StoreStep == api'.n = api.n + 1 /\ api'.op \in StoreOps
StoreReturned == StoreStep /\ ~api'.raised

\* Looking up the id the store returned, in the partition stored to, gives the
\* record with that id and the text handed in.
RoundTrip ==
    LET got == GetContentById(db', api'.ret_id, api'.collection)
    IN  /\ Len(got) = 1
        /\ got[1].id = api'.ret_id
        /\ got[1].content = api'.text

\* Every record that could be looked up before the step is looked up unchanged after it.
LookupsKept ==
    \A c \in Collections : \A i \in DOMAIN db[c] :
        /\ GetContentById(db, db[c][i].id, c) = <<db[c][i]>>
        /\ GetContentById(db', db[c][i].id, c) = <<db[c][i]>>

\* C18: in each of the four partitions, a record stored and then looked up
\* under the returned id in the same partition comes back with that id and
\* exactly the stored text, and it still does after further store operations.
C18_StoreThenGetRoundTrip ==
    [][(StoreReturned => RoundTrip) /\ (StoreStep => LookupsKept)]_vars

\* A final version was stored and is found under its id, after an original
\* whose text starts with a blank was stored and is still found as stored.
C18_Witness ==
    /\ api.n >= 2
    /\ api.op = "store_final_version"
    /\ ~api.raised
    /\ GetContentById(db, api.ret_id, "final_versions") # <<>>
    /\ GetContentById(db, api.ret_id, "final_versions")[1].content = api.text
    /\ \E i \in DOMAIN db.original_content :
          /\ db.original_content[i].content = <<SP, "a">>
          /\ db.original_content[i].id = api.key

\* The step added one record, under an id no record carried, at the end of the
\* partition stored to, and changed nothing else.
OneRecordAdded ==
    LET own == api'.collection
    IN  /\ Len(db'[own]) = Len(db[own]) + 1
        /\ SubSeq(db'[own], 1, Len(db[own])) = db[own]
        /\ db'[own][Len(db'[own])].id = api'.ret_id
        /\ api'.ret_id \notin {r.id : r \in Records(db)}
        /\ \A c \in Collections \ {own} : db'[c] = db[c]

\* C19: every store operation adds exactly one record, under an id that no
\* existing record uses, to its own partition and leaves every existing record
\* of the four partitions unchanged.
C19_StoreAddsOneFreshRecord ==
    [][StoreReturned => OneRecordAdded]_vars

\* A final version was stored for an original that already had one: both are there.
C19_Witness ==
    /\ api.op = "store_final_version"
    /\ ~api.raised
    /\ api.ret_id \in IdsOf(db, "final_versions")
    /\ Cardinality(FinalsOf(api.key)) >= 2

\* The positions of the drafts of original a in the drafts partition.
DraftsOf(a) == {j \in DOMAIN db.ai_generated : db.ai_generated[j].original_id = a}

\* No review, no final version references a.
Unreviewed(a) == \A i \in DOMAIN db.reviews : db.reviews[i].content_id # a
Unpublished(a) == FinalsOf(a) = {}

\* What get_content_history gives for the stored original a.
HistoryOf(a) ==
    LET h == GetContentHistory(db, a)
    IN  /\ Len(h.original) = 1
        /\ h.original[1].id = a
        /\ \A i \in DOMAIN h.ai_versions : h.ai_versions[i].original_id = a
        /\ \A j \in DraftsOf(a) :
              \E i \in DOMAIN h.ai_versions : h.ai_versions[i] = db.ai_generated[j]
        /\ Len(h.ai_versions) = Cardinality(DraftsOf(a))
        /\ Unreviewed(a) => h.reviews = <<>>
        /\ Unpublished(a) => h.final_version = <<>>

\* C20: for a stored original A with drafts referencing it, get_content_history(A)
\* gives original.id = A, exactly the drafts whose original_id is A, an empty
\* review list when no review references A and no final version when no final
\* version references A.
C20_HistoryListsOwnDrafts ==
    \A a \in IdsOf(db, "original_content") : HistoryOf(a)

\* An original with a draft, no review and no final version, next to a draft of
\* another original.
C20_Witness ==
    \E a \in IdsOf(db, "original_content") :
        /\ DraftsOf(a) # {}
        /\ Unreviewed(a)
        /\ Unpublished(a)
        /\ DraftsOf(a) # DOMAIN db.ai_generated
        /\ api.op = "store_ai_generated_content"

\* --------------------------------------------------------------------- C21
\* The last call was get_content_history.
HistoryAsked == api.op = "get_content_history"

\* Nothing is filed under the id a.
NothingFiledUnder(a) == DraftsOf(a) = {} /\ Unreviewed(a) /\ Unpublished(a)

\* C21: get_content_history never raises; for an id without an original record
\* its result has original None, and for an original with no drafts, reviews
\* or final version it has empty draft and review lists and no final version.
C21_HistoryOfMissingIsExplicit ==
    HistoryAsked =>
        /\ ~api.raised
        /\ DOMAIN api.result = {"original", "ai_versions", "reviews", "final_version"}
        /\ ~Exists(db, api.key, "original_content") => api.result.original = <<>>
        /\ NothingFiledUnder(api.key) =>
              /\ api.result.ai_versions = <<>>
              /\ api.result.reviews = <<>>
              /\ api.result.final_version = <<>>

\* The history of a deleted original was asked for, with its final version
\* still in the store.
C21_Witness ==
    /\ HistoryAsked
    /\ db = OrphanedDb
    /\ api.key = 1
    /\ api.result.original = <<>>
    /\ api.result.final_version # <<>>

\* --------------------------------------------------------------------- C22
\* The last call was get_content_by_id.
ByIdAsked == api.op = "get_content_by_id"

\* C22: get_content_by_id never raises and returns None when the id is not in
\* the named partition, when it is in another partition only, and when the
\* name is not the name of one of the four partitions.
C22_LookupOfMissingIsNone ==
    ByIdAsked =>
        /\ ~api.raised
        /\ ~Exists(db, api.key, api.collection) => api.result = <<>>
        /\ api.collection \notin Collections => api.result = <<>>
        /\ api.result # <<>> =>
              /\ Len(api.result) = 1
              /\ api.result[1].id = api.key

\* The id of a draft was looked up among the originals: None.
C22_Witness ==
    /\ ByIdAsked
    /\ api.collection = "original_content"
    /\ Exists(db, api.key, "ai_generated")
    /\ api.result = <<>>

\* --------------------------------------------------------------------- C23
\* The last call was search_content.
SearchAsked == api.op = "search_content"

\* C23: search_content never raises and returns a list of at most n_results
\* records, all of them records of the named partition; for an unknown
\* partition name, an empty partition or a failing search the list is empty.
C23_SearchIsBoundedAndTotal ==
    SearchAsked =>
        /\ ~api.raised
        /\ Len(api.result) <= api.limit
        /\ api.collection \notin Collections => api.result = <<>>
        /\ api.collection \in Collections =>
              /\ \A i \in DOMAIN api.result :
                    \E j \in DOMAIN db[api.collection] :
                        api.result[i] = db[api.collection][j]
              /\ \A i, j \in DOMAIN api.result :
                    api.result[i].id = api.result[j].id => i = j
              /\ db[api.collection] = <<>> => api.result = <<>>

\* A search with the empty query in a partition of more records than asked
\* for returned as many as asked for.
C23_Witness ==
    /\ SearchAsked
    /\ api.text = EmptyText
    /\ api.limit = MaxResults
    /\ api.collection = "original_content"
    /\ Len(db.original_content) > api.limit
    /\ Len(api.result) = api.limit

\* --------------------------------------------------------------------- C24
\* The step is a review decision taken with the AI agents available.
AiReviewStep == DecisionStep /\ action' = "review" /\ ai_available

\* C24: a review decision with the AI available leaves the draft as it is when
\* the human declines the suggestions or the review fails, and replaces it by
\* the output of suggest_improvements when the human accepts them (the draft
\* itself when the provider fails); in every case the counter advances by one
\* and nothing is written to the store.
C24_ReviewDecisionKeepsStore ==
    [][AiReviewStep =>
         /\ iteration' = iteration + 1
         /\ db' = db
         /\ next_id' = next_id
         /\ failed_stores' = failed_stores
         /\ ~confirm' => current_content' = current_content
         /\ current_content' # current_content =>
               /\ confirm'
               /\ current_content' \in ProviderTexts]_vars

\* The first decision was a review whose suggestions the human accepted: the
\* draft is the improver's text, no longer the first draft.
C24_Witness ==
    /\ ai_available
    /\ action = "review"
    /\ decisions = 1
    /\ iteration = FirstIteration + 1
    /\ confirm
    /\ current_content \in ProviderTexts
    /\ current_content # ai_content

\* --------------------------------------------------------------------- C25
\* The step is an approve decision.
ApproveStep == DecisionStep /\ action' = "approve"

\* C25: an approve decision ends the review loop at once, its result being
\* exactly the draft presented at that prompt; the decision itself changes
\* neither the draft nor the store.
C25_ApproveReturnsPresentedDraft ==
    [][ApproveStep =>
         /\ pc' = "returned"
         /\ loop_exit' = "approved"
         /\ final_content' = [isNone |-> FALSE, text |-> current_content]
         /\ current_content' = current_content
         /\ iteration' = iteration
         /\ db' = db
         /\ next_id' = next_id
         /\ failed_stores' = failed_stores]_vars

\* An edited draft that starts with a blank was approved and returned as it is.
C25_Witness ==
    /\ pc = "returned"
    /\ loop_exit = "approved"
    /\ action = "approve"
    /\ current_content = <<SP, "e">>
    /\ final_content.text = <<SP, "e">>

\* --------------------------------------------------------------------- C26
\* C26: every result of review_content, whatever the provider did, is a
\* mapping with the four scores, strengths, weaknesses, suggestions and
\* summary, each score in 1..10.
C26_ReviewIsAlwaysWellFormed ==
    api.op = "review_content" =>
        /\ ~api.raised
        /\ api.result.isdict
        /\ ReviewKeys \subseteq DOMAIN api.result.data
        /\ \A k \in ScoreKeys : api.result.data[k] \in 1 .. 10

\* --------------------------------------------------------------------- C27
\* The text agents.
TextAgents == {"spin_chapter", "suggest_improvements", "finalize_content"}

\* C27: spin_chapter, suggest_improvements and finalize_content never raise;
\* when the provider fails each returns the text it was given, unchanged.
C27_TextAgentsFallBackToInput ==
    api.op \in TextAgents =>
        /\ ~api.raised
        /\ api.provider.isNone => api.result = api.text
        /\ ~api.provider.isNone => api.result = api.provider.text

\* The finalizer was given a text that starts with a blank, the provider
\* failed, and the text came back as given.
C27_Witness ==
    /\ api.op = "finalize_content"
    /\ api.provider.isNone
    /\ api.text = <<SP, "a">>
    /\ api.result = <<SP, "a">>

\* --------------------------------------------------------------------- C28
\* The lineage key a record carries: the original's id on a draft, the content
\* id on a review and a final version, none on an original.
LineageKey(rec) ==
    CASE rec.content_type = "original" -> NoId
      [] rec.content_type = "ai_generated" -> rec.original_id
      [] OTHER -> rec.content_id

\* The primary text request r supplied: its text, or the summary of its review.
Supplied(r) ==
    IF r.op = "store_review" THEN ReviewContent(r.arg).summary ELSE r.text

\* The record request c stored is in the partition it wrote to, once, under the
\* id the call returned, with the text and the lineage key the call supplied.
RecordOf(c) ==
    LET r == requests[c]
        found == GetContentById(db, r.id, r.collection)
    IN  /\ Len(found) = 1
        /\ found[1].content = Supplied(r)
        /\ LineageKey(found[1]) = r.key
        /\ \A other \in Collections \ {r.collection} : r.id \notin IdsOf(db, other)

\* No step takes a record away or changes one.
RecordsKept == \A rec \in Records(db) : rec \in Records(db')

\* C28: with several requests storing concurrently through the one
\* ContentDatabase, in every interleaving each completed store call has its
\* record in the store under its own id, with the text and lineage key it
\* supplied, and no store call removes or alters a record of another call.
C28_ConcurrentStoresKeepEveryRecord ==
    /\ [](\A c \in Callers : requests[c].pc = "stored" => RecordOf(c))
    /\ [](\A c, e \in Callers :
            (c # e /\ requests[c].id # NoId) => requests[c].id # requests[e].id)
    /\ [][RecordsKept]_vars

\* Two requests stored into the same partition, the one that drew its id later
\* adding its record first: both records are there.
C28_Witness ==
    \E c, e \in Callers :
        /\ requests[c].pc = "stored"
        /\ requests[e].pc = "stored"
        /\ requests[c].collection = "original_content"
        /\ requests[e].collection = "original_content"
        /\ requests[c].id < requests[e].id
        /\ \E i, j \in DOMAIN db.original_content :
              /\ i < j
              /\ db.original_content[i].id = requests[e].id
              /\ db.original_content[j].id = requests[c].id

\* --------------------------------------------------------------------- C29
\* C29: run_workflow returns None only after a scrape failure or a confirmed
\* cancel; a loop that ended by approve or by the iteration limit, whatever the
\* draft, the empty text included, is followed by the finalization and the
\* storing of a final version.
C29_NoneOnlyOnScrapeFailureOrCancel ==
    /\ (pc = "done" /\ result = "None") =>
          \/ "scrape_error" \in console
          \/ loop_exit = "cancelled"
    /\ (pc = "done" /\ loop_exit \in {"approved", "max"}) =>
          /\ "cancelled" \notin console
          /\ "completed" \in console

\* --------------------------------------------------------------------- C30
\* C30: the review loop returns after at most max_iterations decisions of the
\* human, whatever the decisions are and whether or not the AI is available.
C30_AtMostMaxIterationsPrompts ==
    decisions <= max_iterations

\* --------------------------------------------------------------------- C31
\* The run returned its result mapping (main.py:167-172).
ReturnedMapping == pc = "done" /\ result = "dict"

\* C31: whenever run_workflow returns a result mapping, its final_id is the id
\* of exactly one record of final_versions, filed under the result's
\* original_id, holding the result's final_content, with status "published".
C31_ResultNamesThePublishedFinal ==
    ReturnedMapping =>
        LET found == GetContentById(db, final_id, "final_versions")
        IN  /\ Len(found) = 1
            /\ found[1].content_id = original_id
            /\ found[1].content = finalized_content
            /\ found[1].status = "published"

\* A run returned its mapping after the AI editor changed the approved draft,
\* on a database that already held a final version of earlier work.
C31_Witness ==
    /\ ReturnedMapping
    /\ finalized_content # final_content.text
    /\ Len(db.final_versions) = 2

\* --------------------------------------------------------------------- C32
\* C32: in every reachable state every draft's original_id and every final
\* version's content_id is the id of a present original, and every review's
\* content_id is the id of a present draft or original.
C32_ReferentialIntegrity ==
    /\ \A i \in DOMAIN db.ai_generated :
          db.ai_generated[i].original_id \in IdsOf(db, "original_content")
    /\ \A i \in DOMAIN db.final_versions :
          db.final_versions[i].content_id \in IdsOf(db, "original_content")
    /\ \A i \in DOMAIN db.reviews :
          db.reviews[i].content_id \in
              IdsOf(db, "ai_generated") \cup IdsOf(db, "original_content")

\* --------------------------------------------------------------------- C34
\* A step of DELETE /api/history/<content_id>.
HistoryDeleteStep ==
    api'.n = api.n + 1 /\ api'.op = "delete_history_item"

\* The collections that hold a record with the id.
Holders(d, id) == {c \in Collections : id \in IdsOf(d, c)}

\* C34: DELETE /api/history/<content_id> removes the record with that id from
\* the partition that holds it, keeps every other record and answers success;
\* when no partition holds the id it answers 404 and changes nothing.
C34_HistoryDeleteFindsThePartition ==
    [][HistoryDeleteStep =>
         IF Holders(db, api'.key) # {}
         THEN /\ api'.ret_ok
              /\ Holders(db', api'.key) = {}
              /\ Records(db') = {r \in Records(db) : r.id # api'.key}
         ELSE /\ ~api'.ret_ok
              /\ db' = db]_vars

\* --------------------------------------------------------------------- C33
\* A regenerate decision for which the generative model answered.
RegenerateGenerated ==
    /\ pc = "prompt"
    /\ action' = "regenerate"
    /\ decisions' = decisions + 1
    /\ ai_available
    /\ current_content' \in ProviderTexts

\* C33: every regenerate decision for which the AI generation succeeds adds
\* exactly one record to the drafts, filed under the run's original, whose text
\* is the draft presented at the next prompt, so that get_content_history of
\* the original lists it.  (Decisions of a run in which a regenerate's own
\* store call raised are left aside here.)
C33_RegenerateFilesTheShownDraft ==
    [][(RegenerateGenerated /\ "regen" \notin failed_stores') =>
         /\ Len(db'.ai_generated) = Len(db.ai_generated) + 1
         /\ SubSeq(db'.ai_generated, 1, Len(db.ai_generated)) = db.ai_generated
         /\ \A c \in Collections \ {"ai_generated"} : db'[c] = db[c]
         /\ LET rec == db'.ai_generated[Len(db'.ai_generated)]
                hist == GetContentHistory(db', original_id).ai_versions
            IN  /\ rec.original_id = original_id
                /\ rec.content = current_content'
                /\ \E i \in DOMAIN hist : hist[i] = rec]_vars

\* --------------------------------------------------------------------- C35
\* The step adds one record to the drafts and leaves the rest of the store alone.
OneDraftWritten ==
    /\ Len(db'.ai_generated) = Len(db.ai_generated) + 1
    /\ SubSeq(db'.ai_generated, 1, Len(db.ai_generated)) = db.ai_generated
    /\ \A c \in Collections \ {"ai_generated"} : db'[c] = db[c]

\* C35: in the review loop the iteration counter starts at 1, never decreases,
\* changes by at most one per decision and is between 1 and max_iterations at
\* every prompt; the only writes of the loop to the store are the draft records
\* of regenerate decisions.
C35_CounterAndWritesOfTheLoop ==
    /\ [](pc = "prompt" => iteration \in 1 .. max_iterations)
    /\ [][pc = "step2" => iteration' = 1]_vars
    /\ [][DecisionStep => iteration' \in {iteration, iteration + 1}]_vars
    /\ [][(DecisionStep /\ action' # "regenerate") => db' = db]_vars
    /\ [][(DecisionStep /\ action' = "regenerate") =>
             (db' = db \/ OneDraftWritten)]_vars

\* The human is asked at the last iteration of a run whose regenerate
\* decisions wrote two drafts.
C35_Witness ==
    /\ pc = "prompt"
    /\ iteration = max_iterations
    /\ regenerates = 2
    /\ Len(SelectSeq(db.ai_generated, LAMBDA r : r.original_id = original_id)) = 3

\* --------------------------------------------------------------------- C36
\* The run stored its final version.
FinalStored == pc = "done" /\ final_id # Unbound

\* C36: the final version a run stores holds the draft the review loop
\* returned, or the AI editor's finalization of it; with the AI unavailable or
\* after a failure of the review or of its storing in step 4 it holds the
\* returned draft itself, never the scraped original or an earlier draft.
C36_FinalComesFromReturnedDraft ==
    FinalStored =>
        LET found == GetContentById(db, final_id, "final_versions")
        IN  /\ Len(found) = 1
            /\ ~final_content.isNone
            /\ \/ found[1].content = final_content.text
               \/ /\ ai_available
                  /\ "finalize_error" \notin console
                  /\ found[1].content \in ProviderTexts

\* A final version was stored after step 4 failed, and the returned draft was
\* neither the scraped text nor the first AI draft.
C36_Witness ==
    /\ FinalStored
    /\ "finalize_error" \in console
    /\ final_content.text \notin {text_content, ai_content}
    /\ Truthy(text_content)

\* --------------------------------------------------------------------- C37
\* The self-test of caller c has answered that the database works.
ProbeAnswered(c) ==
    requests[c].arg = "test_system" /\ requests[c].pc = "answered"

\* The ids the self-tests in progress drew for their test records.
ProbeIds == {requests[c].id : c \in {e \in Callers : requests[e].arg = "test_system"}}

\* C37: the database self-tests leave the store as they found it: once the
\* store-then-delete probe has completed with a positive answer, no partition
\* holds its test record, and no step taken meanwhile, by the probe or by
\* another request's store call, removes or changes any other record.
C37_SelfTestLeavesStoreAsFound ==
    /\ [](\A c \in Callers : ProbeAnswered(c) =>
            \A col \in Collections : requests[c].id \notin IdsOf(db, col))
    /\ [][\A rec \in Records(db) :
             rec.id \notin ProbeIds => rec \in Records(db')]_vars

\* --------------------------------------------------------------------- C38
\* The step with which DELETE /api/history answers {'status': 'success'}.
ClearAnswers ==
    /\ api'.op = "clear_history"
    /\ api'.pc = "answered"
    /\ api # api'

\* C38: when clear_history answers success all four partitions are empty, also
\* with other callers' store requests running next to it: no record stored
\* before the answer survives.  (Stated here for the requests in which no
\* collection.get and no collection.delete raised.)
C38_ClearLeavesNothing ==
    [][(ClearAnswers /\ ~api'.failed) =>
         \A c \in Collections : db'[c] = <<>>]_vars
====
